---- MODULE Spec2Model ----
(***************************************************************************)
(* Secure tokens of crates.io (src/util/token.rs): the kind registry, the  *)
(* generator, the parser and the digest, called by concurrent request      *)
(* handlers.                                                               *)
(*                                                                         *)
(* A Rust `String`/`&str` is a sequence of Unicode scalar values; a        *)
(* `Vec<u8>`/`&[u8]` is a sequence of bytes.  `as_bytes` is the UTF-8      *)
(* encoding.  Two collaborators are external crates and are modelled by    *)
(* their contract: sha2's Sha256 (a total, deterministic function from     *)
(* bytes to 32 bytes; the model uses a small mixing function and no        *)
(* property below relies on collision resistance) and rand's OsRng (each   *)
(* draw either yields a uniform index or, when the operating system's      *)
(* source cannot be read, panics).                                         *)
(***************************************************************************)
EXTENDS Integers, Sequences, FiniteSets, TLC

VARIABLES calls, prefixTest

vars == <<calls, prefixTest>>

(***************************************************************************)
(* Bounds of the model.                                                    *)
(***************************************************************************)
\* seeds of the sample streams the random source is taken to produce
MaxSeed == 2
\* strides of the sample streams
MaxStride == 1

\* the request handlers calling generate and parse concurrently
Callers == {"h1", "h2"}

(***************************************************************************)
(* Option<T>                                                               *)
(***************************************************************************)
None == [some |-> FALSE]

Some(v) == [some |-> TRUE, val |-> v]

(***************************************************************************)
(* str / bytes primitives                                                  *)
(***************************************************************************)
\* str::starts_with(&str)
starts_with(s, pat) ==
    /\ Len(pat) <= Len(s)
    /\ SubSeq(s, 1, Len(pat)) = pat

\* UTF-8 encoding of one scalar value
utf8_char(cp) ==
    IF cp < 128 THEN <<cp>>
    ELSE IF cp < 2048 THEN <<192 + (cp \div 64), 128 + (cp % 64)>>
    ELSE IF cp < 65536
         THEN <<224 + (cp \div 4096), 128 + ((cp \div 64) % 64), 128 + (cp % 64)>>
         ELSE <<240 + (cp \div 262144), 128 + ((cp \div 4096) % 64),
                128 + ((cp \div 64) % 64), 128 + (cp % 64)>>

RECURSIVE as_bytes(_)
\* str::as_bytes
as_bytes(s) ==
    IF s = <<>> THEN <<>> ELSE utf8_char(Head(s)) \o as_bytes(Tail(s))

(***************************************************************************)
(* Sha256 (sha2 crate)                                                     *)
(***************************************************************************)
DIGEST_LENGTH == 32

RECURSIVE Sha256_update(_, _)
Sha256_update(h, bytes) ==
    IF bytes = <<>> THEN h
    ELSE Sha256_update((h * 33 + Head(bytes) + 1) % 65521, Tail(bytes))

\* Sha256::digest(bytes).as_slice().to_vec()
Sha256_digest(bytes) ==
    LET h == Sha256_update(5381, bytes)
    IN  [i \in 1..DIGEST_LENGTH |-> (h * i + Len(bytes) + i) % 256]

(***************************************************************************)
(* secure_token_kind! { enum SecureTokenKind { Api => "cio", } }           *)
(***************************************************************************)
\* a registry whose Api prefix was edited to "cia"
RegistryRenamedPrefix == << [key |-> "Api", repr |-> <<99, 105, 97>>] >>

\* the ($key => $repr) pairs handed to the macro, in order: Api => "cio"
Registry == << [key |-> "Api", repr |-> <<99, 105, 111>>] >>

\* const VARIANTS: &'static [Self] = &[$(Self::$key,)*]
VARIANTS == [i \in 1..Len(Registry) |-> Registry[i].key]

SecureTokenKind == {VARIANTS[i] : i \in 1..Len(VARIANTS)}

\* fn prefix(&self) -> &'static str
prefix(kind) ==
    LET i == CHOOSE j \in 1..Len(Registry) : Registry[j].key = kind
    IN  Registry[i].repr

\* a lookup that searches the prefix anywhere in the token (str::contains)
from_token_contains(token) ==
    LET hit(i) == \E k \in 0..Len(token) :
                     starts_with(SubSeq(token, k + 1, Len(token)), prefix(VARIANTS[i]))
        found == {i \in 1..Len(VARIANTS) : hit(i)}
    IN  IF found = {} THEN None
        ELSE Some(VARIANTS[CHOOSE i \in found : \A j \in found : i <= j])

\* fn from_token(token: &str) -> Option<Self>: the first variant, in
\* declaration order, whose prefix the token starts with
from_token(token) ==
    LET found == {i \in 1..Len(VARIANTS) : starts_with(token, prefix(VARIANTS[i]))}
    IN  IF found = {} THEN None
        ELSE Some(VARIANTS[CHOOSE i \in found : \A j \in found : i <= j])

(***************************************************************************)
(* Panics: a call either returns a value or unwinds without one.           *)
(***************************************************************************)
Panic == [panicked |-> TRUE]

Returned(v) == [panicked |-> FALSE, val |-> v]

(***************************************************************************)
(* The random string primitive                                             *)
(***************************************************************************)
TOKEN_LENGTH == 32

\* b"abcdefghijklmnopqrstuvwxyzABCDEFGHIJKLMNOPQRSTUVWXYZ0123456789"
CHARS ==
    << 97, 98, 99, 100, 101, 102, 103, 104, 105, 106, 107, 108, 109,
       110, 111, 112, 113, 114, 115, 116, 117, 118, 119, 120, 121, 122,
       65, 66, 67, 68, 69, 70, 71, 72, 73, 74, 75, 76, 77,
       78, 79, 80, 81, 82, 83, 84, 85, 86, 87, 88, 89, 90,
       48, 49, 50, 51, 52, 53, 54, 55, 56, 57 >>

\* OsRng.sample_iter(Uniform::from(0..CHARS.len())): the n-th draw of the
\* stream rng.  The stream yields (seed + stride * (n - 1)) mod CHARS.len();
\* the read of the operating system's source fails at draw rng.failAt
\* (0: never), and OsRng panics there.
OsRng_sample(rng, n) ==
    IF rng.failAt = n THEN Panic
    ELSE Returned((rng.seed + rng.stride * (n - 1)) % Len(CHARS))

\* on a failed read, carry on with a counter in place of the secure source
generate_secure_alphanumeric_string_fallback(len, rng) ==
    Returned([n \in 1..len |->
                 IF OsRng_sample(rng, n).panicked
                 THEN CHARS[((n * 7) % Len(CHARS)) + 1]
                 ELSE CHARS[OsRng_sample(rng, n).val + 1]])

\* .take(len - 1): one character short
generate_secure_alphanumeric_string_short(len, rng) ==
    IF \E n \in 1..(len - 1) : OsRng_sample(rng, n).panicked THEN Panic
    ELSE Returned([n \in 1..(len - 1) |-> CHARS[OsRng_sample(rng, n).val + 1]])

\* fn generate_secure_alphanumeric_string(len: usize) -> String
generate_secure_alphanumeric_string(len, rng) ==
    IF \E n \in 1..len : OsRng_sample(rng, n).panicked THEN Panic
    ELSE Returned([n \in 1..len |-> CHARS[OsRng_sample(rng, n).val + 1]])

(***************************************************************************)
(* impl SecureToken                                                        *)
(***************************************************************************)
\* pub fn hash(plaintext: &str) -> Vec<u8>
hash(plaintext) == Sha256_digest(as_bytes(plaintext))

\* a generator that hashes the random body alone, without the prefix
generate_hash_body(kind, rng) ==
    LET body == generate_secure_alphanumeric_string(TOKEN_LENGTH, rng)
    IN  IF body.panicked THEN Panic
        ELSE Returned([plaintext |-> prefix(kind) \o body.val,
                       inner |-> [sha256 |-> hash(body.val)]])

\* pub(crate) fn generate(kind: SecureTokenKind) -> NewSecureToken
generate(kind, rng) ==
    LET body == generate_secure_alphanumeric_string(TOKEN_LENGTH, rng)
    IN  IF body.panicked THEN Panic
        ELSE LET plaintext == prefix(kind) \o body.val
             IN  Returned([plaintext |-> plaintext,
                           inner |-> [sha256 |-> hash(plaintext)]])

\* a parser without the kind check
parse_unchecked(kind, plaintext) == Some([sha256 |-> hash(plaintext)])

\* a parser that hashes what follows the prefix
parse_hash_body(kind, plaintext) ==
    IF from_token(plaintext) # Some(kind) THEN None
    ELSE Some([sha256 |->
                 hash(SubSeq(plaintext, Len(prefix(kind)) + 1, Len(plaintext)))])

\* pub(crate) fn parse(kind: SecureTokenKind, plaintext: &str) -> Option<Self>
parse(kind, plaintext) ==
    IF from_token(plaintext) # Some(kind) THEN None
    ELSE Some([sha256 |-> hash(plaintext)])

(***************************************************************************)
(* #[test] fn test_persistent_prefixes()                                   *)
(***************************************************************************)
\* the (kind, prefix) pairs the test passes to `ensure`: (Api, "cio")
PinnedPrefixes == << [kind |-> "Api", prefix |-> <<99, 105, 111>>] >>

\* runs the test: "passed", or the panic that ends it
test_persistent_prefixes ==
    LET ensured   == {PinnedPrefixes[i].kind : i \in 1..Len(PinnedPrefixes)}
        remaining == SecureTokenKind \ ensured
    IN  IF \E i \in 1..Len(PinnedPrefixes) :
              prefix(PinnedPrefixes[i].kind) # PinnedPrefixes[i].prefix
        THEN "assert_eq failed"
        ELSE IF remaining # {}
             THEN "not all variants have a test to check the prefix"
             ELSE "passed"

(***************************************************************************)
(* Inputs                                                                  *)
(***************************************************************************)
Seeds == {(j * 30) % Len(CHARS) : j \in 0..MaxSeed}

Strides == 0..MaxStride

\* the sample streams of the random source: every seed and stride with no
\* failed read, and one stream failing at the first draw, at the last draw
\* and after the last draw
RngStreams ==
    {[seed |-> s, stride |-> d, failAt |-> 0] : s \in Seeds, d \in Strides}
    \cup {[seed |-> 0, stride |-> 1, failAt |-> k] :
             k \in {1, TOKEN_LENGTH, TOKEN_LENGTH + 1}}

\* plaintexts no generator issued: "nokind", "", "ci", "cio", "xciotoken",
\* "cio" followed by U+00E9, "Cio9", and "xyz" followed by 32 times "a"
Garbage ==
    { <<110, 111, 107, 105, 110, 100>>,
      <<>>,
      <<99, 105>>,
      <<99, 105, 111>>,
      <<120, 99, 105, 111, 116, 111, 107, 101, 110>>,
      <<99, 105, 111, 233>>,
      <<67, 105, 111, 57>>,
      <<120, 121, 122>> \o [n \in 1..TOKEN_LENGTH |-> 97] }

\* what a handler may present to parse: garbage, or a plaintext some
\* handler was issued
Presented ==
    Garbage \cup {calls[c].ret.val.plaintext :
                     c \in {d \in Callers : calls[d].op = "generate"
                                            /\ ~calls[d].ret.panicked}}

(***************************************************************************)
(* The state machine: handlers call generate and parse in any order.       *)
(* calls[c] is handler c's latest call, with its arguments and its result. *)
(***************************************************************************)
Init ==
    /\ calls = [c \in Callers |-> [op |-> "none"]]
    /\ prefixTest = "not run"

\* a generator that leaves its result in a buffer every handler reads
GenerateSharedBuffer(c, kind, rng) ==
    /\ calls' = [d \in Callers |->
                    [op |-> "generate", kind |-> kind, failAt |-> rng.failAt,
                     ret |-> generate(kind, rng)]]
    /\ UNCHANGED prefixTest

\* handler c calls SecureToken::generate(kind); rng is what OsRng yields
Generate(c, kind, rng) ==
    /\ calls' = [calls EXCEPT ![c] =
                    [op |-> "generate", kind |-> kind, failAt |-> rng.failAt,
                     ret |-> generate(kind, rng)]]
    /\ UNCHANGED prefixTest

\* handler c calls SecureToken::parse(kind, plaintext)
Parse(c, kind, plaintext) ==
    /\ calls' = [calls EXCEPT ![c] =
                    [op |-> "parse", kind |-> kind, plaintext |-> plaintext,
                     ret |-> parse(kind, plaintext)]]
    /\ UNCHANGED prefixTest

\* the test suite runs test_persistent_prefixes
TestPersistentPrefixes ==
    /\ prefixTest = "not run"
    /\ prefixTest' = test_persistent_prefixes
    /\ UNCHANGED calls

Next ==
    \/ \E c \in Callers, kind \in SecureTokenKind, rng \in RngStreams :
          Generate(c, kind, rng)
    \/ \E c \in Callers, kind \in SecureTokenKind, plaintext \in Presented :
          Parse(c, kind, plaintext)
    \/ TestPersistentPrefixes

Spec == Init /\ [][Next]_vars

(***************************************************************************)
(* Properties                                                              *)
(***************************************************************************)
\* handler c's latest call is a generate that returned a token
IssuedTo(c) == calls[c].op = "generate" /\ ~calls[c].ret.panicked

\* handler c's latest call is a parse
ParsedBy(c) == calls[c].op = "parse"

\* handler d presented to parse, under the same kind, the plaintext that
\* handler c was issued
PresentedBack(c, d) ==
    /\ IssuedTo(c)
    /\ ParsedBy(d)
    /\ calls[d].kind = calls[c].kind
    /\ calls[d].plaintext = calls[c].ret.val.plaintext

\* one of a-z, A-Z, 0-9
IsAsciiAlphanumeric(ch) ==
    \/ ch \in 97..122
    \/ ch \in 65..90
    \/ ch \in 48..57

\* the kinds whose prefix the text starts with
KindsMatching(text) == {k \in SecureTokenKind : starts_with(text, prefix(k))}

\* C1: round trip.  Whenever a token generated for kind K is presented to
\* parse under K, parse returns Some(S), and S's digest is the digest that
\* generate returned with the token.
C1_RoundTrip ==
    \A c, d \in Callers :
        PresentedBack(c, d) =>
            /\ calls[d].ret.some
            /\ calls[d].ret.val.sha256 = calls[c].ret.val.inner.sha256

C1_Witness ==
    \E c, d \in Callers : PresentedBack(c, d) /\ calls[d].ret.some

\* C3: a plaintext that starts with no registered kind's prefix is parsed
\* to None, whatever the kind asked for.
C3_NoKindIsNone ==
    \A c \in Callers :
        (ParsedBy(c) /\ KindsMatching(calls[c].plaintext) = {}) =>
            calls[c].ret = None

\* "nokind" was presented and parse returned None
C3_Witness ==
    \E c \in Callers :
        /\ ParsedBy(c)
        /\ calls[c].plaintext = <<110, 111, 107, 105, 110, 100>>
        /\ calls[c].ret = None

\* C5: a generated plaintext starts with its kind's prefix, is 32
\* characters longer than the prefix, and every character after the prefix
\* is one of a-z, A-Z, 0-9.
C5_PlaintextShape ==
    \A c \in Callers :
        IssuedTo(c) =>
            LET p   == calls[c].ret.val.plaintext
                pre == prefix(calls[c].kind)
            IN  /\ starts_with(p, pre)
                /\ Len(p) = Len(pre) + 32
                /\ \A i \in (Len(pre) + 1)..Len(p) : IsAsciiAlphanumeric(p[i])

\* a token was issued whose body holds a lower-case letter, an upper-case
\* letter and a digit
C5_Witness ==
    \E c \in Callers :
        /\ IssuedTo(c)
        /\ LET p == calls[c].ret.val.plaintext
               body == {p[i] : i \in (Len(prefix(calls[c].kind)) + 1)..Len(p)}
           IN  /\ body \cap (97..122) # {}
               /\ body \cap (65..90) # {}
               /\ body \cap (48..57) # {}

\* C6: the digest of a token is the Sha256 digest of the UTF-8 bytes of the
\* whole plaintext, prefix included, both for the token generate returns
\* and for the token a successful parse returns; so two calls on the same
\* plaintext carry the same digest.
C6_DigestOfFullPlaintext ==
    /\ \A c \in Callers :
          IssuedTo(c) =>
              calls[c].ret.val.inner.sha256
                  = Sha256_digest(as_bytes(calls[c].ret.val.plaintext))
    /\ \A c \in Callers :
          (ParsedBy(c) /\ calls[c].ret.some) =>
              calls[c].ret.val.sha256 = Sha256_digest(as_bytes(calls[c].plaintext))
    /\ \A c, d \in Callers :
          (PresentedBack(c, d) /\ calls[d].ret.some) =>
              calls[d].ret.val.sha256 = calls[c].ret.val.inner.sha256

\* one handler holds an issued token while the other holds the token parsed
\* from a plaintext with a character outside ASCII
C6_Witness ==
    \E c, d \in Callers :
        /\ IssuedTo(c)
        /\ ParsedBy(d)
        /\ calls[d].ret.some
        /\ \E i \in 1..Len(calls[d].plaintext) : calls[d].plaintext[i] >= 128

\* C7: prefixes are frozen.  Kind Api has the prefix "cio"; the standing
\* test pins every kind of the registry to its literal and leaves none
\* unpinned (it never fails); and in every state, whatever calls came
\* before, an issued Api token starts with "cio".
C7_PrefixesFrozen ==
    /\ "Api" \in SecureTokenKind
    /\ prefix("Api") = <<99, 105, 111>>
    /\ prefixTest \in {"not run", "passed"}
    /\ \A c \in Callers :
          (IssuedTo(c) /\ calls[c].kind = "Api") =>
              SubSeq(calls[c].ret.val.plaintext, 1, 3) = <<99, 105, 111>>

\* the test has run and passed after generate and parse calls
C7_Witness ==
    /\ prefixTest = "passed"
    /\ \E c, d \in Callers : IssuedTo(c) /\ calls[c].kind = "Api" /\ ParsedBy(d)

\* C8: when a read of the secure random source fails during one of the 32
\* draws, generate does not return: the caller gets no plaintext and no
\* digest, and no other source stands in.
C8_EntropyFailureAborts ==
    \A c \in Callers :
        (calls[c].op = "generate" /\ calls[c].failAt \in 1..32) =>
            calls[c].ret = Panic

\* a generate call whose last draw failed
C8_Witness ==
    \E c \in Callers :
        /\ calls[c].op = "generate"
        /\ calls[c].failAt = 32
        /\ calls[c].ret.panicked

\* C9: kind lookup is unambiguous and is parse's only acceptance test.  For
\* every presented text at most one kind's prefix is a prefix of the text;
\* from_token returns that kind, or None when there is none; and
\* parse(K, p) is Some exactly when from_token(p) = Some(K), which is
\* exactly when p starts with prefix(K).
C9_LookupDecidesParse ==
    \A c \in Callers :
        ParsedBy(c) =>
            LET p == calls[c].plaintext
                K == calls[c].kind
                m == KindsMatching(p)
            IN  /\ Cardinality(m) <= 1
                /\ from_token(p) = IF m = {} THEN None ELSE Some(CHOOSE k \in m : TRUE)
                /\ calls[c].ret.some <=> (from_token(p) = Some(K))
                /\ calls[c].ret.some <=> starts_with(p, prefix(K))

\* one handler parsed the bare prefix "cio" to Some while the other parsed
\* "xciotoken", which holds the prefix but does not start with it, to None
C9_Witness ==
    \E c, d \in Callers :
        /\ ParsedBy(c)
        /\ calls[c].plaintext = <<99, 105, 111>>
        /\ calls[c].ret.some
        /\ ParsedBy(d)
        /\ calls[d].plaintext = <<120, 99, 105, 111, 116, 111, 107, 101, 110>>
        /\ calls[d].ret = None

\* C10: the core is stateless.  Two parse calls with the same kind and
\* plaintext return the same result, whichever handler makes them and
\* whatever was called before; and a call changes nothing but the calling
\* handler's own result: not what another handler was returned, and not
\* the outcome of the registry's prefix test.
C10_ParseIsAFunction ==
    \A c, d \in Callers :
        (/\ ParsedBy(c)
         /\ ParsedBy(d)
         /\ calls[c].kind = calls[d].kind
         /\ calls[c].plaintext = calls[d].plaintext) => calls[c].ret = calls[d].ret

C10_CallIsLocal ==
    \A c \in Callers :
        calls'[c] # calls[c] =>
            /\ \A d \in Callers \ {c} : calls'[d] = calls[d]
            /\ prefixTest' = prefixTest

====
